---------------------------- MODULE Spec2Model ----------------------------
(***************************************************************************)
(* A model of the deckwarden plugin backend (src/main.py): the Plugin      *)
(* object's fields, the process environment, the three persisted files,    *)
(* the external bw CLI, and the request handlers as coroutines that        *)
(* interleave at their await points.                                       *)
(*                                                                         *)
(* Strings and byte strings are sequences of character codes.  The Python  *)
(* value None is the sequence <<-1>>, which is no string.                  *)
(***************************************************************************)
EXTENDS Integers, Sequences, FiniteSets, TLC

None == <<-1>>

\* Python truthiness of an optional string: neither None nor "".
Truthy(v) == v # None /\ v # <<>>

\* a or b, on optional strings.
Or(a, b) == IF Truthy(a) THEN a ELSE b

---------------------------------------------------------------------------
\* str.strip(): leading and trailing whitespace removed.

IsSpace(c) == c \in (9..13) \cup (28..32)

RECURSIVE LStrip(_)
LStrip(s) == IF s # <<>> /\ IsSpace(Head(s)) THEN LStrip(Tail(s)) ELSE s

RECURSIVE RStrip(_)
RStrip(s) ==
    IF s # <<>> /\ IsSpace(s[Len(s)]) THEN RStrip(SubSeq(s, 1, Len(s) - 1)) ELSE s

Strip(s) == RStrip(LStrip(s))

\* (x or "").strip()
StripArg(x) == Strip(Or(x, <<>>))

---------------------------------------------------------------------------
\* base64, as base64.b64encode / base64.b64decode and as openssl's -a.

B64Char(v) ==
    IF v < 26 THEN 65 + v
    ELSE IF v < 52 THEN 97 + (v - 26)
    ELSE IF v < 62 THEN 48 + (v - 52)
    ELSE IF v = 62 THEN 43 ELSE 47

IsB64Char(c) ==
    c \in (65..90) \cup (97..122) \cup (48..57) \cup {43, 47}

B64Val(c) ==
    IF c \in 65..90 THEN c - 65
    ELSE IF c \in 97..122 THEN c - 97 + 26
    ELSE IF c \in 48..57 THEN c - 48 + 52
    ELSE IF c = 43 THEN 62 ELSE 63

RECURSIVE B64Encode(_)
B64Encode(b) ==
    IF Len(b) = 0 THEN <<>>
    ELSE IF Len(b) = 1 THEN
        LET n == b[1] * 16
        IN  <<B64Char(n \div 64), B64Char(n % 64), 61, 61>>
    ELSE IF Len(b) = 2 THEN
        LET n == (b[1] * 256 + b[2]) * 4
        IN  <<B64Char(n \div 4096), B64Char((n \div 64) % 64), B64Char(n % 64), 61>>
    ELSE
        LET n == b[1] * 65536 + b[2] * 256 + b[3]
        IN  <<B64Char(n \div 262144), B64Char((n \div 4096) % 64),
              B64Char((n \div 64) % 64), B64Char(n % 64)>>
            \o B64Encode(SubSeq(b, 4, Len(b)))

\* The characters of s that belong to the base64 alphabet or are padding:
\* the non-validating decoder discards the rest (newlines among them).
RECURSIVE B64Filter(_)
B64Filter(s) ==
    IF s = <<>> THEN <<>>
    ELSE IF IsB64Char(Head(s)) \/ Head(s) = 61
         THEN <<Head(s)>> \o B64Filter(Tail(s))
         ELSE B64Filter(Tail(s))

RECURSIVE B64Quads(_)
B64Quads(s) ==
    IF s = <<>> THEN <<>>
    ELSE
        LET pad == IF s[4] # 61 THEN 0 ELSE IF s[3] # 61 THEN 1 ELSE 2
            v3  == IF pad = 2 THEN 0 ELSE B64Val(s[3])
            v4  == IF pad >= 1 THEN 0 ELSE B64Val(s[4])
            n   == B64Val(s[1]) * 262144 + B64Val(s[2]) * 4096 + v3 * 64 + v4
            all == <<n \div 65536, (n \div 256) % 256, n % 256>>
        IN  SubSeq(all, 1, 3 - pad) \o B64Quads(SubSeq(s, 5, Len(s)))

\* Padding may only close the data: the last one or two characters.
B64WellPadded(f) ==
    /\ Len(f) % 4 = 0
    /\ \A i \in 1..Len(f) :
           f[i] = 61 => /\ i >= Len(f) - 1
                        /\ (i = Len(f) - 1 => f[Len(f)] = 61)

\* base64.b64decode(data): the bytes, or None where it raises binascii.Error.
B64Decode(s) ==
    LET f == B64Filter(s)
    IN  IF B64WellPadded(f) THEN B64Quads(f) ELSE None

---------------------------------------------------------------------------
\* bytes.decode('utf-8'): whether the bytes are well-formed UTF-8.

IsCont(b) == b \in 128..191

RECURSIVE Utf8Valid(_)
Utf8Valid(b) ==
    IF b = <<>> THEN TRUE
    ELSE IF b[1] < 128 THEN Utf8Valid(Tail(b))
    ELSE IF b[1] \in 194..223 THEN
        /\ Len(b) >= 2 /\ IsCont(b[2])
        /\ Utf8Valid(SubSeq(b, 3, Len(b)))
    ELSE IF b[1] \in 224..239 THEN
        /\ Len(b) >= 3 /\ IsCont(b[2]) /\ IsCont(b[3])
        /\ (b[1] = 224 => b[2] >= 160)
        /\ (b[1] = 237 => b[2] <= 159)
        /\ Utf8Valid(SubSeq(b, 4, Len(b)))
    ELSE IF b[1] \in 240..244 THEN
        /\ Len(b) >= 4 /\ IsCont(b[2]) /\ IsCont(b[3]) /\ IsCont(b[4])
        /\ (b[1] = 240 => b[2] >= 144)
        /\ (b[1] = 244 => b[2] <= 143)
        /\ Utf8Valid(SubSeq(b, 5, Len(b)))
    ELSE FALSE

---------------------------------------------------------------------------
\* The openssl tool: enc -aes-256-cbc -salt -pbkdf2 -a -pass pass:<key>.
\* The block cipher is a keyed byte-wise bijection on PKCS#7-padded blocks
\* of BlockLen bytes; the file format (the Salted__ header, the salt, the
\* base64 armour with its trailing newline) is openssl's.

Magic == <<83, 97, 108, 116, 101, 100, 95, 95>>

BlockLen == 16

\* The key _get_encryption_key derives: fixed for a plugin directory and user.
KeyByte == 90

Salts == { <<1, 2, 3, 4, 5, 6, 7, 8>>, <<200, 17, 250, 3, 128, 99, 255, 64>> }

KeyStream(salt, i) == (salt[((i - 1) % 8) + 1] + KeyByte + i) % 256

Pkcs7Pad(p) ==
    LET n == BlockLen - (Len(p) % BlockLen)
    IN  p \o [i \in 1..n |-> n]

Pkcs7Ok(p) ==
    /\ Len(p) > 0
    /\ p[Len(p)] \in 1..BlockLen
    /\ p[Len(p)] <= Len(p)
    /\ \A i \in (Len(p) - p[Len(p)] + 1)..Len(p) : p[i] = p[Len(p)]

Encipher(salt, p) == [i \in 1..Len(p) |-> (p[i] + KeyStream(salt, i)) % 256]

Decipher(salt, c) == [i \in 1..Len(c) |-> (c[i] + 256 - KeyStream(salt, i)) % 256]

\* base64 armour: lines of 64 characters, each ended by a newline.
RECURSIVE Armour(_)
Armour(s) ==
    IF Len(s) <= 64 THEN s \o <<10>>
    ELSE SubSeq(s, 1, 64) \o <<10>> \o Armour(SubSeq(s, 65, Len(s)))

\* stdout of openssl enc with the given salt.
OpensslEnc(salt, p) ==
    Armour(B64Encode(Magic \o salt \o Encipher(salt, Pkcs7Pad(p))))

\* stdout of openssl enc -d, or None where openssl exits non-zero (bad magic
\* number, bad decrypt, error reading input file).
OpensslDec(data) ==
    LET raw == B64Decode(data)
    IN  IF raw = None \/ Len(raw) < 16 \/ SubSeq(raw, 1, 8) # Magic THEN None
        ELSE
            LET salt == SubSeq(raw, 9, 16)
                ct   == SubSeq(raw, 17, Len(raw))
                pt   == Decipher(salt, ct)
            IN  IF Len(ct) = 0 \/ Len(ct) % BlockLen # 0 \/ ~Pkcs7Ok(pt) THEN None
                ELSE SubSeq(pt, 1, Len(pt) - pt[Len(pt)])

\* _encrypt_password: openssl's output, or base64 when the tool is unusable
\* (CalledProcessError, FileNotFoundError).
EncryptPassword(usable, salt, password) ==
    IF usable THEN OpensslEnc(salt, password) ELSE B64Encode(password)

DecryptFallback(data) ==
    LET raw == B64Decode(data)
    IN  IF raw = None \/ ~Utf8Valid(raw) THEN None ELSE raw

\* _decrypt_password: openssl's output decoded, or, when the tool is unusable
\* or exits non-zero, the base64 decoding of the data decoded; None when that
\* raises.
DecryptPassword(usable, data) ==
    IF usable /\ OpensslDec(data) # None
    THEN OpensslDec(data)
    ELSE DecryptFallback(data)

---------------------------------------------------------------------------
\* Bounds of the model.

\* Handler invocations that may be in flight at once.
MaxTasks == 2

\* Handler invocations over a run of the plugin, all told.
MaxCalls == 2

\* Stops and starts of the plugin (_unload followed by a fresh _main).
MaxRestarts == 1

Tasks == 1..MaxTasks

\* Inputs of the handlers: "a" and "b " as passwords, " e" as email, the
\* server names, the session keys bw unlock can print.
Passwords == { <<97>>, <<98, 32>> }

Emails == { <<32, 101>> }

Servers == { "us", "moon" }

Sessions == { <<83>>, <<84>> }

\* The master password of the bw account.
Master == <<97>>

VARIABLES
    mem,     \* the Plugin object: _saved_password, _saved_email, _session
    env,     \* os.environ: BW_PASSWORD, BW_SESSION
    fs,      \* the password, email and session files: content, or None
    bw,      \* the bw CLI's own state: the vault and the key it issued
    phase,   \* the plugin's lifecycle
    tasks,   \* the handler invocations (coroutines)
    hist,    \* history: what was called, saved and cleared
    cr       \* the obfuscation round trip, inputs and results

vars == <<mem, env, fs, bw, phase, tasks, hist, cr>>

---------------------------------------------------------------------------
\* The dictionaries the handlers return.

NoRet == [success |-> FALSE, error |-> "(none)", code |-> 0, data |-> None]

Ok == [success |-> TRUE, error |-> "", code |-> 0, data |-> None]

OkData(d) == [success |-> TRUE, error |-> "", code |-> 0, data |-> d]

Err(msg) == [success |-> FALSE, error |-> msg, code |-> 0, data |-> None]

\* _run_bw's dictionary for a process that exited non-zero: the process's
\* error text (here the command that printed it) and its exit code.
ProcFail(cmd) == [success |-> FALSE, error |-> cmd, code |-> 1, data |-> None]

NotFound == Err("Bitwarden CLI not found")

NoSession == Err("No active session. Please login.")

\* {"saved": ..., "password"/"email": ...}
Saved(v) == [success |-> v # None, error |-> "", code |-> 0, data |-> v]

---------------------------------------------------------------------------
\* Handler invocations.

NoProc ==
    [cmd |-> "none", pw |-> None, sess |-> None, out |-> "none", val |-> None,
     status |-> ""]

\* What an invocation found at its entry, for handlers that are compared
\* with it at their return: the session in its three tiers, BW_PASSWORD, and
\* the answer of get_saved_password_status with openssl usable or not.
NoPre ==
    [session |-> None, envSession |-> None, fileSession |-> None,
     envPassword |-> None, status |-> [tool \in BOOLEAN |-> Saved(None)]]

IdleTask ==
    [kind |-> "none", pc |-> "idle", step |-> "none", proc |-> NoProc,
     sess |-> None, pw |-> None, email |-> None, nproc |-> 0,
     ret |-> NoRet, fails |-> {}, pre |-> NoPre]

NewTask(kind) == [IdleTask EXCEPT !.kind = kind]

InFlight(t) == tasks[t].pc \in {"wait", "exited"}

Free(t) == ~InFlight(t)

\* A coroutine whose _run_bw returned without suspending (the bw binary is
\* missing) runs on before any other coroutine is scheduled.
Pending(t) == tasks[t].pc = "exited" /\ tasks[t].proc.out = "notfound"

NoPending == \A t \in Tasks : ~Pending(t)

\* The outcomes of _run_bw's launch: the binary is missing, or
\* create_subprocess_exec raises OSError, or the process starts.
Launches == {"notfound", "raise", "start"}

\* os.open / os.write of a file: done, or open fails, or write fails after
\* the file was truncated.
Writes == {"ok", "open", "write"}

\* _run_bw up to the process's start, with os.environ as it is then.
RunBwMissing(tk, cmd) ==
    [tk EXCEPT !.pc = "exited", !.step = cmd,
               !.proc = [NoProc EXCEPT !.cmd = cmd, !.out = "notfound"]]

RunBwRaise(tk, cmd) ==
    [tk EXCEPT !.pc = "raised", !.step = cmd, !.proc = NoProc]

\* A launch that does not wait for its process: the coroutine returns
\* while the process runs.
RunBwStartNoWait(tk, cmd, session, e) ==
    [tk EXCEPT !.pc = "done", !.step = cmd, !.nproc = @ + 1,
               !.ret = [success |-> TRUE, error |-> "", code |-> 0, data |-> None],
               !.proc = [cmd |-> cmd, pw |-> e.BW_PASSWORD,
                         sess |-> IF Truthy(session) THEN session ELSE e.BW_SESSION,
                         out |-> "run", val |-> None, status |-> ""]]

RunBwStart(tk, cmd, session, e) ==
    [tk EXCEPT !.pc = "wait", !.step = cmd, !.nproc = @ + 1,
               !.proc = [cmd |-> cmd, pw |-> e.BW_PASSWORD,
                         sess |-> IF Truthy(session) THEN session ELSE e.BW_SESSION,
                         out |-> "run", val |-> None, status |-> ""]]

RunBw(tk, cmd, session, e, o) ==
    IF o = "notfound" THEN RunBwMissing(tk, cmd)
    ELSE IF o = "raise" THEN RunBwRaise(tk, cmd)
    ELSE RunBwStart(tk, cmd, session, e)

\* _run_bw's result once the process is over.
RunResult(p) ==
    IF p.out = "notfound" THEN NotFound
    ELSE IF p.out = "fail" THEN ProcFail(p.cmd)
    ELSE OkData(p.val)

\* Whether stdout parsed (json.loads) for a process that exited 0.
Parsed(p) == p.out = "ok"

Return(tk, r) ==
    [tk EXCEPT !.pc = "done", !.ret = r,
               !.proc = IF @.out = "run" THEN @ ELSE NoProc]

Raise(tk) == [tk EXCEPT !.pc = "raised", !.proc = NoProc]

---------------------------------------------------------------------------
\* The session cache and the stores.  A store state is the record
\* [mem, env, fs]; the operators return the state they leave.

Store == [mem |-> mem, env |-> env, fs |-> fs]

\* _get_cached_session: the session and the state it leaves (the session
\* found in a lower tier is copied up).
CachedSession(s) ==
    IF Truthy(s.mem.session) THEN s.mem.session
    ELSE IF Truthy(s.env.BW_SESSION) THEN s.env.BW_SESSION
    ELSE IF s.fs.session # None /\ Truthy(Strip(s.fs.session)) THEN Strip(s.fs.session)
    ELSE None

GetCachedSession(s) ==
    IF Truthy(s.mem.session) THEN s
    ELSE IF Truthy(s.env.BW_SESSION)
         THEN [s EXCEPT !.mem.session = s.env.BW_SESSION]
    ELSE IF CachedSession(s) # None
         THEN [s EXCEPT !.mem.session = CachedSession(s),
                        !.env.BW_SESSION = CachedSession(s)]
    ELSE s

\* _clear_saved_session; unlinked says whether unlink succeeds (an OSError
\* is swallowed).
ClearSavedSession(s, unlinked) ==
    [s EXCEPT !.mem.session = None, !.env.BW_SESSION = None,
              !.fs.session = IF unlinked THEN None ELSE @]

\* _save_session's file write (the OSError it raises is the caller's).
SaveSession(s, session, w) ==
    [s EXCEPT !.fs.session = IF w = "ok" THEN session
                             ELSE IF w = "write" THEN <<>> ELSE @]

\* clear_saved_password and clear_saved_email, and what they return.
ClearSavedPassword(s, unlinked) ==
    [s EXCEPT !.mem.saved_password = None, !.env.BW_PASSWORD = None,
              !.fs.password = IF unlinked THEN None ELSE @]

ClearSavedEmail(s, unlinked) ==
    [s EXCEPT !.mem.saved_email = None,
              !.fs.email = IF unlinked THEN None ELSE @]

ClearResult(file, unlinked, msg) ==
    IF file # None /\ ~unlinked THEN Err(msg) ELSE Ok

\* save_password: the environment is set before anything can fail.
\* A save_password that starts from a clean slate: it clears the session
\* along with the old password.
SavePasswordWiping(s, password, w, tool, salt) ==
    IF ~Truthy(password) THEN s
    ELSE [s EXCEPT !.env.BW_PASSWORD = password,
                   !.env.BW_SESSION = None,
                   !.mem.session = None,
                   !.fs.session = None,
                   !.fs.password = IF w = "ok" THEN EncryptPassword(tool, salt, password)
                                   ELSE IF w = "write" THEN <<>> ELSE @,
                   !.mem.saved_password = IF w = "ok" THEN password ELSE @]

SavePassword(s, password, w, tool, salt) ==
    IF ~Truthy(password) THEN s
    ELSE IF w = "ok"
         THEN [s EXCEPT !.env.BW_PASSWORD = password,
                        !.fs.password = EncryptPassword(tool, salt, password),
                        !.mem.saved_password = password]
    ELSE [s EXCEPT !.env.BW_PASSWORD = password,
                   !.fs.password = IF w = "write" THEN <<>> ELSE @]

SavePasswordResult(password, w) ==
    IF ~Truthy(password) THEN Err("Password is empty")
    ELSE IF w = "ok" THEN Ok ELSE Err("Failed to persist password")

\* save_email: the email is stripped first.
SaveEmail(s, email, w) ==
    IF ~Truthy(StripArg(email)) THEN s
    ELSE IF w = "ok"
         THEN [s EXCEPT !.fs.email = StripArg(email),
                        !.mem.saved_email = StripArg(email)]
    ELSE [s EXCEPT !.fs.email = IF w = "write" THEN <<>> ELSE @]

SaveEmailResult(email, w) ==
    IF ~Truthy(StripArg(email)) THEN Err("Email is empty")
    ELSE IF w = "ok" THEN Ok ELSE Err("Failed to persist email")

\* get_saved_password_status: memory, then the environment, then the file.
SavedPasswordStatus(s, tool) ==
    IF s.mem.saved_password # None THEN Saved(s.mem.saved_password)
    ELSE IF s.env.BW_PASSWORD # None THEN Saved(s.env.BW_PASSWORD)
    ELSE IF s.fs.password # None /\ Truthy(DecryptPassword(tool, s.fs.password))
         THEN Saved(DecryptPassword(tool, s.fs.password))
    ELSE Saved(None)

\* get_saved_email_status: memory, then the file.
SavedEmailStatus(s) ==
    IF s.mem.saved_email # None THEN Saved(s.mem.saved_email)
    ELSE IF s.fs.email # None /\ Truthy(Strip(s.fs.email)) THEN Saved(Strip(s.fs.email))
    ELSE Saved(None)

\* _load_saved_password, _load_saved_email, _load_saved_session.
LoadSavedPassword(s, tool) ==
    IF Truthy(s.env.BW_PASSWORD)
    THEN [s EXCEPT !.mem.saved_password = s.env.BW_PASSWORD]
    ELSE IF s.fs.password # None /\ Truthy(s.fs.password)
            /\ Truthy(DecryptPassword(tool, s.fs.password))
         THEN [s EXCEPT !.mem.saved_password = DecryptPassword(tool, s.fs.password),
                        !.env.BW_PASSWORD = DecryptPassword(tool, s.fs.password)]
    ELSE [s EXCEPT !.mem.saved_password = None]

LoadSavedEmail(s) ==
    [s EXCEPT !.mem.saved_email =
        IF s.fs.email # None /\ Truthy(Strip(s.fs.email)) THEN Strip(s.fs.email)
        ELSE None]

LoadSavedSession(s) ==
    IF Truthy(s.env.BW_SESSION)
    THEN [s EXCEPT !.mem.session = s.env.BW_SESSION]
    ELSE IF s.fs.session # None /\ Truthy(Strip(s.fs.session))
         THEN [s EXCEPT !.mem.session = Strip(s.fs.session),
                        !.env.BW_SESSION = Strip(s.fs.session)]
    ELSE [s EXCEPT !.mem.session = None]

---------------------------------------------------------------------------
\* The state after construction: a fresh install, the plugin not yet started.

NoCrypt ==
    [stage |-> "off", pw |-> None, salt |-> None, enc |-> FALSE, dec |-> FALSE,
     data |-> None, out |-> None]

InitHist ==
    [calls |-> 0, restarts |-> 0, savedPw |-> None, savedEmail |-> None,
     fresh |-> FALSE, epoch |-> FALSE]

Init ==
    /\ mem = [saved_password |-> None, saved_email |-> None, session |-> None]
    /\ env = [BW_PASSWORD |-> None, BW_SESSION |-> None]
    /\ fs = [password |-> None, email |-> None, session |-> None]
    /\ bw = [vault |-> "unauthenticated", key |-> None]
    /\ phase = "stopped"
    /\ tasks = [t \in Tasks |-> IdleTask]
    /\ hist = InitHist
    /\ cr = NoCrypt

SetStore(s) == mem' = s.mem /\ env' = s.env /\ fs' = s.fs

\* A request can be dispatched while others are suspended; the lowest free
\* slot takes it.
CanCall(t) ==
    /\ phase = "running"
    /\ NoPending
    /\ Free(t)
    /\ \A u \in Tasks : u < t => InFlight(u)
    /\ hist.calls < MaxCalls

Called == [hist EXCEPT !.calls = @ + 1, !.fresh = FALSE]

\* A suspended coroutine whose process is over is resumed.
CanResume(t, kind) ==
    /\ tasks[t].kind = kind
    /\ tasks[t].pc = "exited"
    /\ \A u \in Tasks : Pending(u) => u = t

---------------------------------------------------------------------------
\* The bw process of an invocation runs and exits.  A command can always
\* fail (exit non-zero); it succeeds only where bw would.

BwCanSucceed(p) ==
    IF p.cmd = "login" THEN bw.vault = "unauthenticated"
    ELSE IF p.cmd = "unlock" THEN bw.vault # "unauthenticated" /\ p.pw = Master
    ELSE IF p.cmd \in {"sync", "list", "item", "totp"}
         THEN bw.vault = "unlocked" /\ p.sess = bw.key
    ELSE IF p.cmd = "logout" THEN bw.vault # "unauthenticated"
    ELSE TRUE

\* What the process prints on success: unlock the session key, status the
\* vault's status as the process's session sees it.
BwStdout(p, key) == IF p.cmd = "unlock" THEN key ELSE None

BwStatus(p) ==
    IF p.cmd # "status" THEN ""
    ELSE IF bw.vault = "unlocked" /\ p.sess # bw.key THEN "locked"
    ELSE bw.vault

\* What the process does to bw's own state on success.
BwEffect(p, key) ==
    IF p.cmd = "login" THEN [vault |-> "locked", key |-> None]
    ELSE IF p.cmd = "unlock" THEN [vault |-> "unlocked", key |-> key]
    ELSE IF p.cmd = "lock"
         THEN [vault |-> IF bw.vault = "unlocked" THEN "locked" ELSE bw.vault,
               key |-> None]
    ELSE IF p.cmd = "logout" THEN [vault |-> "unauthenticated", key |-> None]
    ELSE bw

\* Commands whose output the handlers parse, so that exit 0 with output
\* that does not parse is an outcome of its own.
Parses == {"status", "list", "item", "unlock"}

Exited(tk, out, val, status) ==
    [tk EXCEPT !.pc = IF @ = "wait" THEN "exited" ELSE @,
               !.proc.out = out, !.proc.val = val, !.proc.status = status,
               !.fails = IF out = "fail" THEN @ \cup {tk.proc.cmd} ELSE @]

ProcSucceeds(t) ==
    /\ NoPending
    /\ tasks[t].proc.out = "run"
    /\ BwCanSucceed(tasks[t].proc)
    /\ \E key \in Sessions :
        /\ tasks' = [tasks EXCEPT ![t] = Exited(@, "ok", BwStdout(@.proc, key), BwStatus(@.proc))]
        /\ bw' = BwEffect(tasks[t].proc, key)
    /\ UNCHANGED <<mem, env, fs, phase, hist, cr>>

ProcFails(t) ==
    /\ NoPending
    /\ tasks[t].proc.out = "run"
    /\ tasks' = [tasks EXCEPT ![t] = Exited(@, "fail", None, "")]
    /\ UNCHANGED <<mem, env, fs, bw, phase, hist, cr>>

ProcGarbles(t) ==
    /\ NoPending
    /\ tasks[t].proc.out = "run"
    /\ tasks[t].proc.cmd \in Parses
    /\ tasks' = [tasks EXCEPT ![t] = Exited(@, "garbage", None, "")]
    /\ UNCHANGED <<mem, env, fs, bw, phase, hist, cr>>

---------------------------------------------------------------------------
\* The handlers that run one bw command: bw_status, bw_config_server,
\* bw_sync, bw_list_items.

Items == { <<>>, <<105>> }

bw_status(t) ==
    /\ CanCall(t)
    /\ \E o \in Launches :
        tasks' = [tasks EXCEPT ![t] = RunBw(NewTask("bw_status"), "status", None, env, o)]
    /\ hist' = Called
    /\ UNCHANGED <<mem, env, fs, bw, phase, cr>>

bw_status_resume(t) ==
    /\ CanResume(t, "bw_status")
    /\ LET r == RunResult(tasks[t].proc)
       IN  tasks' = [tasks EXCEPT ![t] =
               IF ~r.success THEN Return(@, r)
               ELSE IF ~Parsed(@.proc)
                    THEN Return(@, Err("Failed to parse bw status output"))
               ELSE Return(@, Ok)]
    /\ UNCHANGED <<mem, env, fs, bw, phase, hist, cr>>

\* bw_config_server up to its process: the server name decides.
ConfigServer(tk, server, o) ==
    IF server \notin {"us", "eu"}
    THEN Return(tk, Err("Server must be 'us' or 'eu'"))
    ELSE RunBw(tk, "config", None, env, o)

bw_config_server(t) ==
    /\ CanCall(t)
    /\ \E server \in Servers, o \in Launches :
        tasks' = [tasks EXCEPT ![t] = ConfigServer(NewTask("bw_config_server"), server, o)]
    /\ hist' = Called
    /\ UNCHANGED <<mem, env, fs, bw, phase, cr>>

bw_config_server_resume(t) ==
    /\ CanResume(t, "bw_config_server")
    /\ LET r == RunResult(tasks[t].proc)
       IN  tasks' = [tasks EXCEPT ![t] = IF ~r.success THEN Return(@, r) ELSE Return(@, Ok)]
    /\ UNCHANGED <<mem, env, fs, bw, phase, hist, cr>>

\* A handler that needs the cached session: the session is looked up (and
\* copied up the tiers), and without one the handler returns at once.
WithSession(tk, cmd, s, o) ==
    IF ~Truthy(CachedSession(s)) THEN Return(tk, NoSession)
    ELSE RunBw([tk EXCEPT !.sess = CachedSession(s)], cmd, CachedSession(s),
               GetCachedSession(s).env, o)

bw_sync(t) ==
    /\ CanCall(t)
    /\ \E o \in Launches :
        tasks' = [tasks EXCEPT ![t] = WithSession(NewTask("bw_sync"), "sync", Store, o)]
    /\ SetStore(GetCachedSession(Store))
    /\ hist' = Called
    /\ UNCHANGED <<bw, phase, cr>>

bw_sync_resume(t) ==
    /\ CanResume(t, "bw_sync")
    /\ LET r == RunResult(tasks[t].proc)
       IN  tasks' = [tasks EXCEPT ![t] = IF ~r.success THEN Return(@, r) ELSE Return(@, Ok)]
    /\ UNCHANGED <<mem, env, fs, bw, phase, hist, cr>>

\* bw_list_items: an empty search returns before the session is looked up.
bw_list_items(t) ==
    /\ CanCall(t)
    /\ \E search \in Items, o \in Launches :
        IF ~Truthy(StripArg(search))
        THEN /\ tasks' = [tasks EXCEPT ![t] = Return(NewTask("bw_list_items"), Ok)]
             /\ UNCHANGED <<mem, env, fs>>
        ELSE /\ tasks' = [tasks EXCEPT ![t] =
                    WithSession(NewTask("bw_list_items"), "list", Store, o)]
             /\ SetStore(GetCachedSession(Store))
    /\ hist' = Called
    /\ UNCHANGED <<bw, phase, cr>>

bw_list_items_resume(t) ==
    /\ CanResume(t, "bw_list_items")
    /\ LET r == RunResult(tasks[t].proc)
       IN  tasks' = [tasks EXCEPT ![t] =
               IF ~r.success THEN Return(@, r)
               ELSE IF ~Parsed(@.proc)
                    THEN Return(@, Err("Failed to parse bw list output"))
               ELSE Return(@, Ok)]
    /\ UNCHANGED <<mem, env, fs, bw, phase, hist, cr>>

\* bw_get_item: the item, then its totp code; a totp failure is not the
\* handler's failure.
bw_get_item(t) ==
    /\ CanCall(t)
    /\ \E item \in Items, o \in Launches :
        IF ~Truthy(StripArg(item))
        THEN /\ tasks' = [tasks EXCEPT ![t] =
                    Return(NewTask("bw_get_item"), Err("Missing item id"))]
             /\ UNCHANGED <<mem, env, fs>>
        ELSE /\ tasks' = [tasks EXCEPT ![t] =
                    WithSession(NewTask("bw_get_item"), "item", Store, o)]
             /\ SetStore(GetCachedSession(Store))
    /\ hist' = Called
    /\ UNCHANGED <<bw, phase, cr>>

GetItemNext(tk, o) ==
    IF tk.step = "item"
    THEN IF ~RunResult(tk.proc).success THEN Return(tk, RunResult(tk.proc))
         ELSE IF ~Parsed(tk.proc)
              THEN Return(tk, Err("Failed to parse bw get item output"))
         ELSE RunBw(tk, "totp", tk.sess, env, o)
    ELSE Return(tk, Ok)

bw_get_item_resume(t) ==
    /\ CanResume(t, "bw_get_item")
    /\ \E o \in Launches : tasks' = [tasks EXCEPT ![t] = GetItemNext(@, o)]
    /\ UNCHANGED <<mem, env, fs, bw, phase, hist, cr>>

---------------------------------------------------------------------------
\* login_and_sync: config server, status, login when unauthenticated,
\* unlock, then sync with the session unlock printed.

\* _parse_session_from_output on unlock's stdout.
ParseSession(p) == IF p.out = "ok" THEN p.val ELSE None

TypedPasswords == Passwords \cup { <<>> }

TypedEmails == Emails \cup { <<>> }

\* The stored credentials as a caller can observe them.
Observed(s) ==
    [session |-> s.mem.session, envSession |-> s.env.BW_SESSION,
     fileSession |-> s.fs.session, envPassword |-> s.env.BW_PASSWORD,
     status |-> [tool \in BOOLEAN |-> SavedPasswordStatus(s, tool)]]

login_and_sync(t) ==
    /\ CanCall(t)
    /\ \E email \in TypedEmails, password \in TypedPasswords,
          server \in Servers, o \in Launches :
        tasks' = [tasks EXCEPT ![t] =
            ConfigServer([NewTask("login_and_sync") EXCEPT
                              !.pre = Observed(Store),
                              !.pw = StripArg(password),
                              !.email = Or(StripArg(email), mem.saved_email)],
                         server, o)]
    /\ hist' = Called
    /\ UNCHANGED <<mem, env, fs, bw, phase, cr>>

\* The effective password: typed, else saved, else the environment's.
EffectivePassword(tk, s) == Or(Or(tk.pw, s.mem.saved_password), s.env.BW_PASSWORD)

LoginAfterConfig(tk, s, o) ==
    IF ~RunResult(tk.proc).success
    THEN [task |-> Return(tk, RunResult(tk.proc)), store |-> s]
    ELSE IF ~Truthy(EffectivePassword(tk, s))
         THEN [task |-> Return(tk, Err("Missing password")), store |-> s]
    ELSE LET s1 == [s EXCEPT !.env.BW_PASSWORD = EffectivePassword(tk, s)]
         IN  [task |-> RunBw([tk EXCEPT !.pw = EffectivePassword(tk, s)],
                             "status", None, s1.env, o),
              store |-> s1]

LoginAfterStatus(tk, s, o) ==
    IF tk.proc.out = "ok" /\ tk.proc.status = "unauthenticated"
    THEN IF ~Truthy(tk.email)
         THEN [task |-> Return(tk, Err("Email required for login")), store |-> s]
         ELSE [task |-> RunBw(tk, "login", None, s.env, o), store |-> s]
    ELSE [task |-> RunBw(tk, "unlock", None, s.env, o), store |-> s]

LoginAfterLogin(tk, s, o) ==
    IF ~RunResult(tk.proc).success
    THEN [task |-> Return(tk, RunResult(tk.proc)), store |-> s]
    ELSE [task |-> RunBw(tk, "unlock", None, s.env, o), store |-> s]

\* An installation that forgets the environment.
InstallSessionMemoryOnly(s, session, w) ==
    SaveSession([s EXCEPT !.mem.session = session], session, w)

\* The session is put in memory and in the environment, then written to
\* the session file; a failed write raises out of the handler.
InstallSession(s, session, w) ==
    SaveSession([s EXCEPT !.mem.session = session, !.env.BW_SESSION = session],
                session, w)

LoginAfterUnlock(tk, s, o, w) ==
    IF ~RunResult(tk.proc).success
    THEN [task |-> Return(tk, RunResult(tk.proc)), store |-> s]
    ELSE IF ~Truthy(ParseSession(tk.proc))
         THEN [task |-> Return(tk, Err("Failed to retrieve session key")), store |-> s]
    ELSE LET s1 == InstallSession(s, ParseSession(tk.proc), w)
         IN  IF w # "ok" THEN [task |-> Raise(tk), store |-> s1]
             ELSE [task |-> RunBw([tk EXCEPT !.sess = ParseSession(tk.proc)], "sync",
                                  ParseSession(tk.proc), s1.env, o),
                   store |-> s1]

LoginAfterSync(tk, s) ==
    IF ~RunResult(tk.proc).success
    THEN [task |-> Return(tk, RunResult(tk.proc)), store |-> s]
    ELSE [task |-> Return(tk, Ok), store |-> s]

LoginNext(tk, s, o, w) ==
    IF tk.step = "config" THEN LoginAfterConfig(tk, s, o)
    ELSE IF tk.step = "status" THEN LoginAfterStatus(tk, s, o)
    ELSE IF tk.step = "login" THEN LoginAfterLogin(tk, s, o)
    ELSE IF tk.step = "unlock" THEN LoginAfterUnlock(tk, s, o, w)
    ELSE LoginAfterSync(tk, s)

\* Whether this resumption of login_and_sync installs a session.
Installs(tk) ==
    /\ tk.kind = "login_and_sync" /\ tk.step = "unlock"
    /\ RunResult(tk.proc).success /\ Truthy(ParseSession(tk.proc))

login_and_sync_resume(t) ==
    /\ CanResume(t, "login_and_sync")
    /\ \E o \in Launches, w \in Writes :
        /\ tasks' = [tasks EXCEPT ![t] = LoginNext(@, Store, o, w).task]
        /\ SetStore(LoginNext(tasks[t], Store, o, w).store)
    /\ hist' = [hist EXCEPT !.epoch = IF Installs(tasks[t]) THEN FALSE ELSE @]
    /\ UNCHANGED <<bw, phase, cr>>

---------------------------------------------------------------------------
\* bw_lock and bw_logout: the command runs with the cached session, and the
\* session is cleared whatever the command's result.

bw_lock(t) ==
    /\ CanCall(t)
    /\ \E o \in Launches :
        tasks' = [tasks EXCEPT ![t] =
            RunBw(NewTask("bw_lock"), "lock", CachedSession(Store),
                  GetCachedSession(Store).env, o)]
    /\ SetStore(GetCachedSession(Store))
    /\ hist' = Called
    /\ UNCHANGED <<bw, phase, cr>>

\* A lock that reports success whatever its process said.
LockResultDropped(tk) == Ok

LockResult(tk) ==
    IF ~RunResult(tk.proc).success THEN RunResult(tk.proc) ELSE Ok

bw_lock_resume(t) ==
    /\ CanResume(t, "bw_lock")
    /\ \E unlinked \in BOOLEAN : SetStore(ClearSavedSession(Store, unlinked))
    /\ tasks' = [tasks EXCEPT ![t] = Return(@, LockResult(@))]
    /\ hist' = [hist EXCEPT !.epoch = TRUE]
    /\ UNCHANGED <<bw, phase, cr>>

bw_logout(t) ==
    /\ CanCall(t)
    /\ \E o \in Launches :
        tasks' = [tasks EXCEPT ![t] =
            RunBw(NewTask("bw_logout"), "logout", CachedSession(Store),
                  GetCachedSession(Store).env, o)]
    /\ SetStore(GetCachedSession(Store))
    /\ hist' = Called
    /\ UNCHANGED <<bw, phase, cr>>

\* The results of clear_saved_password and clear_saved_email are dropped.
Logout(s, u1, u2, u3) ==
    ClearSavedEmail(ClearSavedPassword(ClearSavedSession(s, u1), u2), u3)

bw_logout_resume(t) ==
    /\ CanResume(t, "bw_logout")
    /\ \E u1 \in BOOLEAN, u2 \in BOOLEAN, u3 \in BOOLEAN :
        SetStore(Logout(Store, u1, u2, u3))
    /\ tasks' = [tasks EXCEPT ![t] = Return(@, LockResult(@))]
    /\ hist' = [hist EXCEPT !.epoch = TRUE, !.savedPw = None, !.savedEmail = None]
    /\ UNCHANGED <<bw, phase, cr>>

---------------------------------------------------------------------------
\* The handlers of the saved password and email: none of them suspends.
\* Whether the openssl tool is usable is an input of each shell-out to it.

\* The salt openssl draws when save_password encrypts.
SaveSalts == { <<1, 2, 3, 4, 5, 6, 7, 8>> }

\* The openssl processes of _encrypt_password / _decrypt_password.
Ran(used, tool) == IF used /\ tool THEN 1 ELSE 0

save_password(t) ==
    /\ CanCall(t)
    /\ \E password \in TypedPasswords, w \in Writes, tool \in BOOLEAN, salt \in SaveSalts :
        /\ SetStore(SavePassword(Store, password, w, tool, salt))
        /\ tasks' = [tasks EXCEPT ![t] =
               Return([NewTask("save_password") EXCEPT
                           !.nproc = Ran(Truthy(password), tool)],
                      SavePasswordResult(password, w))]
        /\ hist' = [Called EXCEPT !.savedPw =
               IF SavePasswordResult(password, w).success THEN password ELSE @]
    /\ UNCHANGED <<bw, phase, cr>>

save_email(t) ==
    /\ CanCall(t)
    /\ \E email \in TypedEmails, w \in Writes :
        /\ SetStore(SaveEmail(Store, email, w))
        /\ tasks' = [tasks EXCEPT ![t] =
               Return(NewTask("save_email"), SaveEmailResult(email, w))]
        /\ hist' = [Called EXCEPT !.savedEmail =
               IF SaveEmailResult(email, w).success THEN email ELSE @]
    /\ UNCHANGED <<bw, phase, cr>>

clear_saved_password(t) ==
    /\ CanCall(t)
    /\ \E unlinked \in BOOLEAN :
        /\ SetStore(ClearSavedPassword(Store, unlinked))
        /\ tasks' = [tasks EXCEPT ![t] =
               Return(NewTask("clear_saved_password"),
                      ClearResult(fs.password, unlinked, "Failed to remove password"))]
    /\ hist' = [Called EXCEPT !.savedPw = None]
    /\ UNCHANGED <<bw, phase, cr>>

clear_saved_email(t) ==
    /\ CanCall(t)
    /\ \E unlinked \in BOOLEAN :
        /\ SetStore(ClearSavedEmail(Store, unlinked))
        /\ tasks' = [tasks EXCEPT ![t] =
               Return(NewTask("clear_saved_email"),
                      ClearResult(fs.email, unlinked, "Failed to remove email"))]
    /\ hist' = [Called EXCEPT !.savedEmail = None]
    /\ UNCHANGED <<bw, phase, cr>>

\* Whether get_saved_password_status gets as far as decrypting the file.
ReadsPasswordFile(s) ==
    s.mem.saved_password = None /\ s.env.BW_PASSWORD = None /\ s.fs.password # None

get_saved_password_status(t) ==
    /\ CanCall(t)
    /\ \E tool \in BOOLEAN :
        tasks' = [tasks EXCEPT ![t] =
           Return([NewTask("get_saved_password_status") EXCEPT
                       !.nproc = Ran(ReadsPasswordFile(Store), tool)],
                  SavedPasswordStatus(Store, tool))]
    /\ hist' = Called
    /\ UNCHANGED <<mem, env, fs, bw, phase, cr>>

get_saved_email_status(t) ==
    /\ CanCall(t)
    /\ tasks' = [tasks EXCEPT ![t] =
           Return(NewTask("get_saved_email_status"), SavedEmailStatus(Store))]
    /\ hist' = Called
    /\ UNCHANGED <<mem, env, fs, bw, phase, cr>>

---------------------------------------------------------------------------
\* The lifecycle: _main, _unload, _uninstall.

\* The environment a fresh _main finds: the plugin's process may have been
\* kept or started anew.
EnvAtStart(kept) ==
    IF kept THEN env ELSE [BW_PASSWORD |-> None, BW_SESSION |-> None]

MainLoads(s, tool) == LoadSavedSession(LoadSavedEmail(LoadSavedPassword(s, tool)))

Main ==
    /\ phase \in {"stopped", "unloaded"}
    /\ \E kept \in BOOLEAN, tool \in BOOLEAN :
        SetStore(MainLoads(
            [mem |-> [saved_password |-> None, saved_email |-> None, session |-> None],
             env |-> EnvAtStart(kept), fs |-> fs], tool))
    /\ phase' = "running"
    /\ tasks' = [t \in Tasks |-> IdleTask]
    /\ hist' = [hist EXCEPT !.fresh = (phase = "unloaded")]
    /\ UNCHANGED <<bw, cr>>

\* _unload runs once the requests are over.
UnloadStart(s) == GetCachedSession([s EXCEPT !.mem.saved_password = None])

Unload ==
    /\ phase = "running"
    /\ \A t \in Tasks : Free(t)
    /\ hist.restarts < MaxRestarts
    /\ \E o \in Launches :
        tasks' = [tasks EXCEPT ![1] =
            RunBw(NewTask("_unload"), "lock", CachedSession(Store),
                  UnloadStart(Store).env, o)]
    /\ SetStore(UnloadStart(Store))
    /\ phase' = "unloading"
    /\ hist' = [hist EXCEPT !.restarts = @ + 1, !.fresh = FALSE]
    /\ UNCHANGED <<bw, cr>>

Unload_resume ==
    /\ CanResume(1, "_unload")
    /\ \E unlinked \in BOOLEAN : SetStore(ClearSavedSession(Store, unlinked))
    /\ tasks' = [tasks EXCEPT ![1] = Return(@, Ok)]
    /\ phase' = "unloaded"
    /\ hist' = [hist EXCEPT !.epoch = TRUE]
    /\ UNCHANGED <<bw, cr>>

UninstallClears(s, u1, u2) == ClearSavedEmail(ClearSavedPassword(s, u1), u2)

Uninstall ==
    /\ phase = "unloaded"
    /\ \E u1 \in BOOLEAN, u2 \in BOOLEAN : SetStore(UninstallClears(Store, u1, u2))
    /\ phase' = "uninstalled"
    /\ hist' = [hist EXCEPT !.savedPw = None, !.savedEmail = None]
    /\ UNCHANGED <<bw, tasks, cr>>

---------------------------------------------------------------------------
\* The plugin: its lifecycle, its requests, their processes.

Next ==
    \/ Main
    \/ Unload
    \/ Unload_resume
    \/ Uninstall
    \/ \E t \in Tasks :
        \/ bw_status(t)
        \/ bw_status_resume(t)
        \/ bw_config_server(t)
        \/ bw_config_server_resume(t)
        \/ bw_sync(t)
        \/ bw_sync_resume(t)
        \/ bw_list_items(t)
        \/ bw_list_items_resume(t)
        \/ bw_get_item(t)
        \/ bw_get_item_resume(t)
        \/ login_and_sync(t)
        \/ login_and_sync_resume(t)
        \/ bw_lock(t)
        \/ bw_lock_resume(t)
        \/ bw_logout(t)
        \/ bw_logout_resume(t)
        \/ save_password(t)
        \/ save_email(t)
        \/ clear_saved_password(t)
        \/ clear_saved_email(t)
        \/ get_saved_password_status(t)
        \/ get_saved_email_status(t)
        \/ ProcSucceeds(t)
        \/ ProcFails(t)
        \/ ProcGarbles(t)

Spec == Init /\ [][Next]_vars

---------------------------------------------------------------------------
\* The obfuscation step on its own: a password is encrypted with the tool
\* usable or not, and the result decrypted with the tool usable or not.

CryptPasswords ==
    { <<97>>, <<98, 32>>, <<195, 169, 49>>, <<112, 97, 115, 115, 119, 111, 114, 100>>,
      [i \in 1..16 |-> 64 + i], [i \in 1..17 |-> 96 + i] }

CryptInit ==
    /\ cr \in [stage : {"start"}, pw : CryptPasswords, salt : Salts,
               enc : BOOLEAN, dec : BOOLEAN, data : {None}, out : {None}]
    /\ mem = [saved_password |-> None, saved_email |-> None, session |-> None]
    /\ env = [BW_PASSWORD |-> None, BW_SESSION |-> None]
    /\ fs = [password |-> None, email |-> None, session |-> None]
    /\ bw = [vault |-> "unauthenticated", key |-> None]
    /\ phase = "stopped"
    /\ tasks = [t \in Tasks |-> IdleTask]
    /\ hist = InitHist

CryptEncrypt ==
    /\ cr.stage = "start"
    /\ cr' = [cr EXCEPT !.stage = "encrypted",
                        !.data = EncryptPassword(cr.enc, cr.salt, cr.pw)]
    /\ UNCHANGED <<mem, env, fs, bw, phase, tasks, hist>>

CryptDecrypt ==
    /\ cr.stage = "encrypted"
    /\ cr' = [cr EXCEPT !.stage = "decrypted",
                        !.out = DecryptPassword(cr.dec, cr.data)]
    /\ UNCHANGED <<mem, env, fs, bw, phase, tasks, hist>>

CryptNext == CryptEncrypt \/ CryptDecrypt

CryptSpec == CryptInit /\ [][CryptNext]_vars

\* The host dispatching one request at a time: a request starts only when
\* no other is suspended.
Alone == \A t \in Tasks : Free(t)

SeqNext ==
    \/ Main
    \/ Unload
    \/ Unload_resume
    \/ Uninstall
    \/ \E t \in Tasks :
        \/ Alone /\ bw_status(t)
        \/ bw_status_resume(t)
        \/ Alone /\ bw_config_server(t)
        \/ bw_config_server_resume(t)
        \/ Alone /\ bw_sync(t)
        \/ bw_sync_resume(t)
        \/ Alone /\ bw_list_items(t)
        \/ bw_list_items_resume(t)
        \/ Alone /\ bw_get_item(t)
        \/ bw_get_item_resume(t)
        \/ Alone /\ login_and_sync(t)
        \/ login_and_sync_resume(t)
        \/ Alone /\ bw_lock(t)
        \/ bw_lock_resume(t)
        \/ Alone /\ bw_logout(t)
        \/ bw_logout_resume(t)
        \/ Alone /\ save_password(t)
        \/ Alone /\ save_email(t)
        \/ Alone /\ clear_saved_password(t)
        \/ Alone /\ clear_saved_email(t)
        \/ Alone /\ get_saved_password_status(t)
        \/ Alone /\ get_saved_email_status(t)
        \/ ProcSucceeds(t)
        \/ ProcFails(t)
        \/ ProcGarbles(t)

SeqSpec == Init /\ [][SeqNext]_vars

---------------------------------------------------------------------------
\* The claims.

RequestHandlers ==
    {"bw_status", "bw_sync", "bw_list_items", "bw_get_item", "bw_config_server",
     "login_and_sync", "bw_lock", "bw_logout", "save_password", "save_email",
     "clear_saved_password", "clear_saved_email"}

Returned(t) == tasks[t].kind \in RequestHandlers /\ tasks[t].pc = "done"

\* C1: every request handler ends every invocation by returning a
\* dictionary; no exception escapes it, not when the bw process cannot be
\* started and not when the session file cannot be written.
C1_NoExceptionEscapes ==
    \A t \in Tasks : tasks[t].kind \in RequestHandlers => tasks[t].pc # "raised"

\* C2: decrypting what was encrypted gives the password back, in each of
\* the four combinations of the openssl tool being usable at encryption and
\* at decryption.
C2_RoundTrip == cr.stage = "decrypted" => cr.out = cr.pw

\* C3: when a login_and_sync and a bw_lock that were in flight together have
\* both returned success, the final state is that of one of the two serial
\* orders: the vault locked and no session held (login, then lock), or the
\* vault unlocked and its session held in memory, in the environment and in
\* the session file (lock, then login).  (The session file agrees with the
\* memory: no removal of it failed.)
LoginThenLock ==
    bw.vault = "locked" /\ mem.session = None /\ env.BW_SESSION = None

LockThenLogin ==
    /\ bw.vault = "unlocked"
    /\ mem.session = bw.key /\ env.BW_SESSION = bw.key /\ fs.session = bw.key

C3_Serializable ==
    \A t \in Tasks, u \in Tasks :
        ( /\ Returned(t) /\ tasks[t].kind = "login_and_sync" /\ tasks[t].ret = Ok
          /\ Returned(u) /\ tasks[u].kind = "bw_lock" /\ tasks[u].ret = Ok
          /\ fs.session = mem.session )
        => (LoginThenLock \/ LockThenLogin)

\* C4: the unlock process a login_and_sync invocation starts sees in
\* BW_PASSWORD the effective password this invocation chose.
C4_UnlockSeesOwnPassword ==
    \A t \in Tasks :
        ( /\ tasks[t].kind = "login_and_sync"
          /\ tasks[t].proc.cmd = "unlock"
          /\ tasks[t].proc.out \notin {"none", "notfound"} )
        => tasks[t].proc.pw = tasks[t].pw

\* C5 as stated: an invocation starts at most one external process.
C5_AtMostOneProcess ==
    \A t \in Tasks : tasks[t].kind \in RequestHandlers => tasks[t].nproc <= 1

\* The processes an invocation of a handler can start, one after another.
ProcLimit(kind) ==
    IF kind = "login_and_sync" THEN 5 ELSE IF kind = "bw_get_item" THEN 2 ELSE 1

\* C5 as amended: every external process an invocation started has exited
\* when the handler returns; an invocation starts at most five processes
\* in login_and_sync, two in bw_get_item and one in the other handlers.
C5_ProcessesOverAtReturn ==
    \A t \in Tasks :
        /\ Returned(t) => tasks[t].proc.out # "run"
        /\ tasks[t].kind \in RequestHandlers
               => tasks[t].nproc <= ProcLimit(tasks[t].kind)

C5_Witness ==
    \E t \in Tasks :
        /\ Returned(t) /\ tasks[t].kind = "login_and_sync"
        /\ tasks[t].ret = Ok /\ tasks[t].nproc = 5

\* C6: a password and an email that were saved and not cleared are what
\* get_saved_password_status and get_saved_email_status return after
\* _unload and a fresh _main, the email stripped.
C6_SavedSurviveRestart ==
    ( /\ phase = "running" /\ hist.fresh
      /\ hist.savedPw # None /\ hist.savedEmail # None )
    => /\ \A tool \in BOOLEAN : SavedPasswordStatus(Store, tool) = Saved(hist.savedPw)
       /\ SavedEmailStatus(Store) = Saved(Strip(hist.savedEmail))

\* C7 as stated: whenever a bw process of an invocation exited non-zero,
\* the handler returns _run_bw's failure dictionary for that process.
C7_EveryFailureReturned ==
    \A t \in Tasks :
        Returned(t) => \A c \in tasks[t].fails : tasks[t].ret = ProcFail(c)

\* The processes whose failure a handler goes on from.
Tolerated(kind) ==
    IF kind = "login_and_sync" THEN {"status"}
    ELSE IF kind = "bw_get_item" THEN {"totp"}
    ELSE {}

\* C7 as amended: the same, but for the status process of login_and_sync
\* and the totp process of bw_get_item, whose failure the handler ignores.
C7_FailureReturned ==
    \A t \in Tasks :
        Returned(t) =>
            \A c \in tasks[t].fails \ Tolerated(tasks[t].kind) :
                tasks[t].ret = ProcFail(c)

C7_Witness ==
    \E t \in Tasks :
        /\ Returned(t) /\ tasks[t].kind = "bw_lock"
        /\ tasks[t].fails = {"lock"} /\ tasks[t].ret = ProcFail("lock")

\* C8: save_password and clear_saved_password leave the email file, the
\* session file, _saved_email, _session and BW_SESSION as they were;
\* save_email and clear_saved_email leave the password file, the session
\* file, _saved_password, _session, BW_PASSWORD and BW_SESSION as they were.
\* A step that is an invocation of one of the handlers named.
Invokes(kinds) ==
    /\ hist'.calls = hist.calls + 1
    /\ \E t \in Tasks : CanCall(t) /\ tasks'[t].kind \in kinds

C8_SaveClearFrame ==
    [][ /\ Invokes({"save_password", "clear_saved_password"})
            => UNCHANGED <<fs.email, fs.session, mem.saved_email, mem.session,
                           env.BW_SESSION>>
        /\ Invokes({"save_email", "clear_saved_email"})
            => UNCHANGED <<fs.password, fs.session, mem.saved_password, mem.session,
                           env.BW_PASSWORD, env.BW_SESSION>> ]_vars

C8_Witness ==
    \E t \in Tasks :
        /\ Returned(t) /\ tasks[t].kind = "save_password" /\ tasks[t].ret = Ok
        /\ fs.session # None /\ mem.session # None /\ env.BW_SESSION # None

\* C9: once _unload and then _uninstall have returned, no password, email
\* or session is left in memory, in the environment or in a file.
C9_NoRemnants ==
    phase = "uninstalled" =>
        /\ mem = [saved_password |-> None, saved_email |-> None, session |-> None]
        /\ env = [BW_PASSWORD |-> None, BW_SESSION |-> None]
        /\ fs = [password |-> None, email |-> None, session |-> None]

\* C10: from the return of bw_lock, bw_logout or _unload until a
\* login_and_sync next installs a session, no tier of the cache gives a
\* session.
C10_NoSessionAfterLock == hist.epoch => CachedSession(Store) = None

\* C11: whenever login_and_sync returns a failure, _session, BW_SESSION, the
\* session file, BW_PASSWORD and the answer of get_saved_password_status are
\* what they were when the invocation was entered.
\* A step in which invocation t of login_and_sync returns a failure.
ReturnsFailure(t) ==
    /\ tasks[t].kind = "login_and_sync" /\ tasks[t].pc = "exited"
    /\ tasks'[t].kind = "login_and_sync" /\ tasks'[t].pc = "done"
    /\ ~tasks'[t].ret.success

C11_FailedLoginLeavesCredentials ==
    [][ \A t \in Tasks : ReturnsFailure(t) => Observed(Store)' = tasks'[t].pre ]_vars

\* C12: in every state reached after _main through handler calls, whenever
\* _session is not None, BW_SESSION is set and equal to _session.
C12_SessionAgrees == mem.session # None => env.BW_SESSION = mem.session

\* A session read back from the session file by a fresh _main, after an
\* _unload that could not remove the file.
C12_Witness ==
    /\ phase = "running" /\ hist.fresh
    /\ mem.session # None /\ fs.session = mem.session

===========================================================================
